---- MODULE Spec2Model ----
(***************************************************************************)
(* Model of src/src/sipo.rs: a serial-in parallel-out shift register       *)
(* driven over three output pins (clock, latch, data), with one            *)
(* ShiftRegisterPin handle per register output.                            *)
(*                                                                         *)
(* Line levels are booleans: TRUE is high (set_high), FALSE is low         *)
(* (set_low).  output_state is indexed from 0 as in the source.            *)
(*                                                                         *)
(* update() is a synchronous function that makes 3*Width+2 fallible calls  *)
(* into the pins; it is modelled one pin call per step so that the states  *)
(* in the middle of an update, and an early return at any call, are        *)
(* states of the model.  A pin call that returns Err leaves the level of   *)
(* its line as it was.                                                     *)
(*                                                                         *)
(* The register chip itself is not part of the source.  It is modelled as  *)
(* its data sheet and the specification describe it: a chain of Width      *)
(* stages that shifts on a rising edge of the clock line and is copied to  *)
(* the outputs when the latch line goes from its open level to its commit  *)
(* level.                                                                  *)
(***************************************************************************)
EXTENDS Naturals, Sequences, FiniteSets

\* $size of shift_register_builder! (8, 16, ..., 128 in the source), scaled down.
Width == 3

\* Pin calls that return Err in one run of the model.
MaxFaults == 1

Index == 0 .. (Width - 1)

\* The three pins the caller owns and hands to new(), in argument order.
Pins == <<"Pin1", "Pin2", "Pin3">>

VARIABLES
    clock, latch, data,   \* fields of the core: which pin each RefCell holds
    output_state,         \* field: the cached pattern, [0..Width-1 -> BOOLEAN]
    inverted,             \* field: the polarity flag
    phase,                \* "live" | "released" (the core was consumed by release)
    returned,             \* the tuple release() returned, <<>> before
    pins,                 \* the array decompose() returned (position -> index), <<>> when no handle is alive
    pc,                   \* position inside update: "idle" when no call is running
    i,                    \* loop variable of update's for loop (1..len), 0 outside the loop
    index, command,       \* arguments of the running (or most recent) update
    method, handle,       \* the pin method that made that call and the index field of its handle
    result,               \* "none" | "pending" | "Ok" | "Err": what update returned
    pin_result,           \* what the pin method returned to its caller
    trace,                \* pin calls made by the running (or most recent) update, in order
    level,                \* level of each pin: [{"Pin1","Pin2","Pin3"} -> BOOLEAN]
    chain, outputs,       \* the register chip: shift chain and latched outputs (as read under the polarity in force)
    commits,              \* open->commit moves of the latch line during the running (or most recent) update
    pre,                  \* output_state as it was when the most recent update was called
    written,              \* per position, the value of the most recent update addressed to it (FALSE when none)
    round_trip,           \* the most recent update is update(i, false) called right after update(i, true)
    origin,               \* output_state before that pair of calls (pre when round_trip is FALSE)
    polarity,             \* the polarity flag as the most recent update read it
    failed_at,            \* number of the pin call that failed in the most recent update, 0 when none did
    faults,               \* pin calls that have returned Err so far
    committed             \* output_state at the end of the most recent successful update (power-on outputs before)

vars == <<clock, latch, data, output_state, inverted, phase, returned, pins, pc, i,
          index, command, method, handle, result, pin_result, trace, level,
          chain, outputs, commits, pre, written, round_trip, origin, polarity, failed_at, faults, committed>>

----------------------------------------------------------------------------
\* Pure parts of the source

\* len() of a pattern
Len0(state) == Cardinality(DOMAIN state)

\* a fresh core with every cached bit set
new_all_true(c, l, d) ==
    [clock |-> c, latch |-> l, data |-> d,
     output_state |-> [j \in Index |-> TRUE],
     inverted |-> FALSE]

\* new(): the fields of a fresh core
new(c, l, d) ==
    [clock |-> c, latch |-> l, data |-> d,
     output_state |-> [j \in Index |-> FALSE],
     inverted |-> FALSE]

\* the cache write left out
WriteBit_dropped(state, idx, cmd) == state

\* the cache write setting every position
WriteBit_whole(state, idx, cmd) == [j \in DOMAIN state |-> cmd]

\* the cache write replacing the whole pattern
WriteBit_clobber(state, idx, cmd) == [j \in DOMAIN state |-> (j = idx /\ cmd)]

\* update, line 65: the cache write
WriteBit(state, idx, cmd) == [state EXCEPT ![idx] = cmd]

\* the first latch drive ignoring the polarity flag
LatchOpenLevel_unpolarised(inv) == FALSE

\* update, lines 67-71: the level of the first latch drive
LatchOpenLevel(inv) == IF inv THEN TRUE ELSE FALSE

\* the loop reading the pattern from position 0 upward
LoopPosition_forward(state, n) == n - 1

\* update, line 74: the pattern position read in loop iteration n (1..len)
LoopPosition(state, n) == Len0(state) - n

\* the data drive ignoring the polarity flag
DataLevel_unpolarised(bit, inv) == bit

\* update, lines 74-86: the level of the data drive for one cached bit
DataLevel(bit, inv) ==
    IF bit THEN (IF inv THEN FALSE ELSE TRUE)
           ELSE (IF inv THEN TRUE ELSE FALSE)

\* the first clock drive going low
ClockFirstLevel_low == FALSE

\* update, line 87: the first clock drive of one iteration
ClockFirstLevel == TRUE

\* the second clock drive repeating the first
ClockSecondLevel_high == TRUE

\* update, line 88: the second clock drive of one iteration
ClockSecondLevel == FALSE

\* the last latch drive repeating the first
LatchCommitLevel_open(inv) == IF inv THEN TRUE ELSE FALSE

\* update, lines 91-95: the level of the last latch drive
LatchCommitLevel(inv) == IF inv THEN FALSE ELSE TRUE

\* update, lines 73-89: the pin calls of loop iterations n..len
RECURSIVE LoopCalls(_, _, _)
LoopCalls(state, inv, n) ==
    IF n > Len0(state) THEN <<>>
    ELSE << <<"data", DataLevel(state[LoopPosition(state, n)], inv)>>,
            <<"clock", ClockFirstLevel>>,
            <<"clock", ClockSecondLevel>> >>
         \o LoopCalls(state, inv, n + 1)

\* update, lines 67-95: every pin call of an update that runs to its end
CommitSequence(state, inv) ==
    << <<"latch", LatchOpenLevel(inv)>> >>
    \o LoopCalls(state, inv, 1)
    \o << <<"latch", LatchCommitLevel(inv)>> >>

\* set_low passing the value of set_high
PinCommand_high(m) == TRUE

\* ShiftRegisterPin::set_high / set_low, lines 31 and 36: the value passed to update
PinCommand(m) == IF m = "set_high" THEN TRUE ELSE FALSE

\* lines 31-32, 36-37: `update(..)?; Ok(())`
PinReturn(r) == IF r = "Err" THEN "Err" ELSE "Ok"

\* the handles numbered from the far end of the array
PinAt_reversed(k) == Width - 1 - k

\* the handles numbered from 1
PinAt_shifted(k) == k + 1

\* decompose(), lines 133-135: the handle at array position k
PinAt(k) == k

\* the tuple with clock and latch exchanged
ReleaseTuple_swapped(c, l, d) == <<l, c, d>>

\* release(), line 151
ReleaseTuple(c, l, d) == <<c, l, d>>

----------------------------------------------------------------------------
\* The register chip, wired to the caller's pins: Pin1 clock input, Pin2 latch
\* input, Pin3 serial data input.

\* a level on the data or latch line, read under the polarity flag
Decode(lv, inv) == IF inv THEN ~lv ELSE lv

\* the chain after one rising clock edge with serial input bit b
ShiftIn(ch, b) == [j \in DOMAIN ch |-> IF j = 0 THEN b ELSE ch[j - 1]]

ChipChain(pin, old, lv) ==
    IF pin = "Pin1" /\ ~old /\ lv
    THEN ShiftIn(chain, Decode(level["Pin3"], inverted))
    ELSE chain

LatchMoves(pin, old, lv) ==
    pin = "Pin2" /\ old = LatchOpenLevel(inverted) /\ lv = LatchCommitLevel(inverted)

ChipOutputs(pin, old, lv) ==
    IF LatchMoves(pin, old, lv) THEN chain ELSE outputs

----------------------------------------------------------------------------
\* One pin call of update on the pin held by a field: the call is made (and
\* logged); when it succeeds the line takes the level and the chip reacts.
Drive(field, pin, lv, ok) ==
    /\ trace' = Append(trace, <<field, lv>>)
    /\ IF ok
       THEN /\ level' = [level EXCEPT ![pin] = lv]
            /\ chain' = ChipChain(pin, level[pin], lv)
            /\ outputs' = ChipOutputs(pin, level[pin], lv)
            /\ commits' = IF LatchMoves(pin, level[pin], lv) THEN commits + 1 ELSE commits
       ELSE UNCHANGED <<level, chain, outputs, commits>>
    /\ ok \/ faults < MaxFaults
    /\ faults' = IF ok THEN faults ELSE faults + 1
    /\ failed_at' = IF ok THEN failed_at ELSE Len(trace) + 1

\* the error of a pin call discarded, update returning Ok(()) at once
Fail_ok ==
    /\ pc' = "idle"
    /\ i' = 0
    /\ result' = "Ok"
    /\ pin_result' = PinReturn("Ok")
    /\ UNCHANGED committed

\* `?` on a failed pin call: update returns Err(()), and so does the pin method
Fail ==
    /\ pc' = "idle"
    /\ i' = 0
    /\ result' = "Err"
    /\ pin_result' = PinReturn("Err")
    /\ UNCHANGED committed

core == <<clock, latch, data, output_state, inverted, phase, returned, pins>>
call == <<index, command, method, handle, pre, written, round_trip, origin, polarity>>

\* The state after new(Pin1, Pin2, Pin3).  new() drives no pin: the caller hands
\* over a clock line that idles low and latch and data lines at any level; the
\* chip powers on with all stages equal and all outputs equal.
Init ==
    /\ LET s == new(Pins[1], Pins[2], Pins[3])
       IN /\ clock = s.clock
          /\ latch = s.latch
          /\ data = s.data
          /\ output_state = s.output_state
          /\ inverted = s.inverted
    /\ phase = "live"
    /\ returned = <<>>
    /\ pins = <<>>
    /\ pc = "idle"
    /\ i = 0
    /\ index = 0
    /\ command = FALSE
    /\ method = "none"
    /\ handle = 0
    /\ result = "none"
    /\ pin_result = "none"
    /\ trace = <<>>
    /\ level \in {lv \in [{"Pin1", "Pin2", "Pin3"} -> BOOLEAN] : ~lv["Pin1"]}
    /\ \E b \in BOOLEAN : chain = [j \in Index |-> b]
    /\ \E b \in BOOLEAN : outputs = [j \in Index |-> b]
    /\ commits = 0
    /\ pre = output_state
    /\ written = [j \in Index |-> FALSE]
    /\ round_trip = FALSE
    /\ origin = output_state
    /\ polarity = inverted
    /\ failed_at = 0
    /\ faults = 0
    /\ committed = outputs

\* inverted() building its result from a fresh pattern
Inverted_reset(state) ==
    /\ phase = "live" /\ pc = "idle" /\ DOMAIN pins = {}
    /\ inverted' = state
    /\ output_state' = [j \in Index |-> FALSE]
    /\ UNCHANGED <<clock, latch, data, phase, returned, pins, pc, i,
                   index, command, method, handle, result, pin_result, trace, level,
                   chain, outputs, commits, pre, written, round_trip, origin, polarity, failed_at, faults, committed>>

\* inverted() callable while handles borrow the core
Inverted_borrowed(state) ==
    /\ phase = "live" /\ pc = "idle"
    /\ inverted' = state
    /\ UNCHANGED <<clock, latch, data, output_state, phase, returned, pins, pc, i,
                   index, command, method, handle, result, pin_result, trace, level,
                   chain, outputs, commits, pre, written, round_trip, origin, polarity, failed_at, faults, committed>>

\* inverted(self, state): takes the core by value, so no handle borrows it
Inverted(state) ==
    /\ phase = "live" /\ pc = "idle" /\ DOMAIN pins = {}
    /\ inverted' = state
    /\ UNCHANGED <<clock, latch, data, output_state, phase, returned, pins, pc, i,
                   index, command, method, handle, result, pin_result, trace, level,
                   chain, outputs, commits, pre, written, round_trip, origin, polarity, failed_at, faults, committed>>

\* decompose(&self)
Decompose ==
    /\ phase = "live" /\ pc = "idle"
    /\ pins' = [k \in 0 .. (Len0(output_state) - 1) |-> PinAt(k)]
    /\ UNCHANGED <<clock, latch, data, output_state, inverted, phase, returned, pc, i,
                   index, command, method, handle, result, pin_result, trace, level,
                   chain, outputs, commits, pre, written, round_trip, origin, polarity, failed_at, faults, committed>>

\* the handles go out of scope, ending their borrow of the core
DropPins ==
    /\ phase = "live" /\ pc = "idle" /\ DOMAIN pins # {}
    /\ pins' = <<>>
    /\ UNCHANGED <<clock, latch, data, output_state, inverted, phase, returned, pc, i,
                   index, command, method, handle, result, pin_result, trace, level,
                   chain, outputs, commits, pre, written, round_trip, origin, polarity, failed_at, faults, committed>>

\* update(index, command), lines 64-66: entry and cache write
Update(idx, cmd) ==
    /\ index' = idx
    /\ command' = cmd
    /\ pre' = output_state
    /\ written' = [j \in Index |-> IF j = idx THEN cmd ELSE written[j]]
    /\ round_trip' = (result \in {"Ok", "Err"} /\ index = idx /\ command /\ ~cmd)
    /\ origin' = IF round_trip' THEN pre ELSE output_state
    /\ polarity' = inverted
    /\ failed_at' = 0
    /\ output_state' = WriteBit(output_state, idx, cmd)
    /\ trace' = <<>>
    /\ commits' = 0
    /\ result' = "pending"
    /\ pin_result' = "pending"
    /\ pc' = "latch_open"
    /\ i' = 0

\* a pin method called on the handle at array position k
PinCall(k, m) ==
    /\ phase = "live" /\ pc = "idle"
    /\ k \in DOMAIN pins
    /\ method' = m
    /\ handle' = pins[k]
    /\ Update(pins[k], PinCommand(m))
    /\ UNCHANGED <<clock, latch, data, inverted, phase, returned, pins, level,
                   chain, outputs, faults, committed>>

set_high(k) == PinCall(k, "set_high")

set_low(k) == PinCall(k, "set_low")

\* update, lines 67-71
LatchOpen(ok) ==
    /\ pc = "latch_open"
    /\ Drive("latch", latch, LatchOpenLevel(inverted), ok)
    /\ IF ok
       THEN /\ IF 1 <= Len0(output_state)
               THEN pc' = "data" /\ i' = 1
               ELSE pc' = "latch_commit" /\ i' = 0
            /\ UNCHANGED <<result, pin_result, committed>>
       ELSE Fail
    /\ UNCHANGED <<core, call>>

\* update, lines 74-86
ShiftData(ok) ==
    /\ pc = "data"
    /\ Drive("data", data, DataLevel(output_state[LoopPosition(output_state, i)], inverted), ok)
    /\ IF ok
       THEN /\ pc' = "clock_high"
            /\ UNCHANGED <<i, result, pin_result, committed>>
       ELSE Fail
    /\ UNCHANGED <<core, call>>

\* update, line 87
ClockHigh(ok) ==
    /\ pc = "clock_high"
    /\ Drive("clock", clock, ClockFirstLevel, ok)
    /\ IF ok
       THEN /\ pc' = "clock_low"
            /\ UNCHANGED <<i, result, pin_result, committed>>
       ELSE Fail
    /\ UNCHANGED <<core, call>>

\* update, lines 88-89
ClockLow(ok) ==
    /\ pc = "clock_low"
    /\ Drive("clock", clock, ClockSecondLevel, ok)
    /\ IF ok
       THEN /\ IF i < Len0(output_state)
               THEN pc' = "data" /\ i' = i + 1
               ELSE pc' = "latch_commit" /\ i' = 0
            /\ UNCHANGED <<result, pin_result, committed>>
       ELSE Fail
    /\ UNCHANGED <<core, call>>

\* update, lines 91-96
LatchCommit(ok) ==
    /\ pc = "latch_commit"
    /\ Drive("latch", latch, LatchCommitLevel(inverted), ok)
    /\ IF ok
       THEN /\ pc' = "idle"
            /\ i' = 0
            /\ result' = "Ok"
            /\ pin_result' = PinReturn("Ok")
            /\ committed' = output_state
       ELSE Fail
    /\ UNCHANGED <<core, call>>

\* release(self)
Release ==
    /\ phase = "live" /\ pc = "idle" /\ DOMAIN pins = {}
    /\ phase' = "released"
    /\ returned' = ReleaseTuple(clock, latch, data)
    /\ UNCHANGED <<clock, latch, data, output_state, inverted, pins, pc, i,
                   index, command, method, handle, result, pin_result, trace, level,
                   chain, outputs, commits, pre, written, round_trip, origin, polarity, failed_at, faults, committed>>

Next ==
    \/ \E state \in BOOLEAN : Inverted(state)
    \/ Decompose
    \/ DropPins
    \/ \E k \in Index : set_high(k)
    \/ \E k \in Index : set_low(k)
    \/ \E ok \in BOOLEAN : LatchOpen(ok)
    \/ \E ok \in BOOLEAN : ShiftData(ok)
    \/ \E ok \in BOOLEAN : ClockHigh(ok)
    \/ \E ok \in BOOLEAN : ClockLow(ok)
    \/ \E ok \in BOOLEAN : LatchCommit(ok)
    \/ Release

Spec == Init /\ [][Next]_vars

----------------------------------------------------------------------------
\* Vocabulary of the properties

\* the most recent update has returned
Returned == pc = "idle" /\ result \in {"Ok", "Err"}

AllFalse(n) == [j \in 0 .. (n - 1) |-> FALSE]

\* clock pulses in a sequence of pin calls: a set_high directly followed by a set_low
Pulses(t) ==
    Cardinality({n \in 1 .. (Len(t) - 1) :
                    t[n] = <<"clock", TRUE>> /\ t[n + 1] = <<"clock", FALSE>>})

\* the level that encodes a bit on the data line: high for true unless inverted
Encodes(bit, inv) == (bit # inv)

\* the commit sequence as the specification words it: latch to the open level
\* (low unless inverted), then for each position from the last down to 0 the
\* data level and a clock pulse, then latch to the opposite level
Expected(state, inv) ==
    LET w == Len0(state)
    IN [n \in 1 .. (3 * w + 2) |->
          IF n = 1 THEN <<"latch", inv>>
          ELSE IF n = 3 * w + 2 THEN <<"latch", ~inv>>
          ELSE LET k == (n - 2) \div 3
                   r == (n - 2) % 3
               IN IF r = 0 THEN <<"data", Encodes(state[w - 1 - k], inv)>>
                  ELSE IF r = 1 THEN <<"clock", TRUE>>
                  ELSE <<"clock", FALSE>>]

\* the data levels of a sequence of pin calls, in order
RECURSIVE DataLevels(_)
DataLevels(t) ==
    IF t = <<>> THEN <<>>
    ELSE (IF Head(t)[1] = "data" THEN <<Head(t)[2]>> ELSE <<>>) \o DataLevels(Tail(t))

----------------------------------------------------------------------------
\* C1: immediately after every update that returns Ok, the output of the
\* register at position j equals the cached bit at position j, for every j,
\* whatever happened in earlier updates (failed ones included).
C1_OutputsEqualCacheAfterOk ==
    (pc = "idle" /\ result = "Ok") => \A j \in Index : outputs[j] = output_state[j]

\* C2 as stated: every update call, whatever its outcome, pulses the clock
\* exactly Width times and moves the latch from open to commit exactly once.
C2_EveryUpdatePulsesWidthTimes ==
    Returned => (Pulses(trace) = Width /\ commits = 1)

\* C2 as amended: every update call that returns Ok pulses the clock exactly
\* Width times and moves the latch from its open level to its commit level
\* exactly once, whichever index and value were written and whether or not the
\* value differs from the cached one.
C2_OkUpdatePulsesWidthTimes ==
    (pc = "idle" /\ result = "Ok") => (Pulses(trace) = Width /\ commits = 1)

\* a successful update that wrote the value the cache already held
C2_Witness ==
    /\ pc = "idle" /\ result = "Ok"
    /\ pre[index] = command
    /\ Pulses(trace) = Width /\ commits = 1

\* C3: in a successful update the data level driven right before the k-th
\* clock pulse (k = 0..Width-1) encodes the cached bit at position Width-1-k as
\* it stands after the write; from an all-false non-inverted cache,
\* update(0, true) drives data low before the first Width-1 pulses and high
\* before the last one only.
C3_LastIndexShiftedFirst ==
    (pc = "idle" /\ result = "Ok") =>
        /\ \A k \in 0 .. (Width - 1) :
              /\ trace[3 * k + 2] = <<"data", Encodes(output_state[Width - 1 - k], polarity)>>
              /\ trace[3 * k + 3] = <<"clock", TRUE>>
              /\ trace[3 * k + 4] = <<"clock", FALSE>>
        /\ (~polarity /\ pre = AllFalse(Width) /\ index = 0 /\ command) =>
              DataLevels(trace) = [k \in 1 .. Width |-> k = Width]

\* update(0, true) has returned Ok on an all-false non-inverted cache
C3_Witness ==
    /\ pc = "idle" /\ result = "Ok"
    /\ ~polarity /\ pre = AllFalse(Width) /\ index = 0 /\ command
    /\ DataLevels(trace) = [k \in 1 .. Width |-> k = Width]

\* C4: the pin calls of a successful update are exactly latch to open, Width
\* times (data, clock high, clock low), latch to commit: 3*Width+2 calls and no
\* other, also when the written value equals the cached one.  For width 8, not
\* inverted, all-false cache, update(3, true) gives latch low, 8 pulses with
\* data low, low, low, low, high, low, low, low, latch high.
C4_FullCommitSequence ==
    /\ (pc = "idle" /\ result = "Ok") =>
          /\ Len(trace) = 3 * Width + 2
          /\ trace = Expected(output_state, polarity)
          /\ trace = CommitSequence(WriteBit(pre, index, command), polarity)
    /\ LET t == CommitSequence(WriteBit(AllFalse(8), 3, TRUE), FALSE)
       IN /\ Len(t) = 26
          /\ t[1] = <<"latch", FALSE>>
          /\ t[26] = <<"latch", TRUE>>
          /\ DataLevels(t) = <<FALSE, FALSE, FALSE, FALSE, TRUE, FALSE, FALSE, FALSE>>
          /\ Pulses(t) = 8
          /\ \A k \in 0 .. 7 : t[3 * k + 2][1] = "data"

\* a successful update that changed nothing in the cache replayed all of it
C4_Witness ==
    /\ pc = "idle" /\ result = "Ok"
    /\ pre = output_state
    /\ \E j \in Index : output_state[j]
    /\ Len(trace) = 3 * Width + 2

\* C5 as stated: every pin call of an update made with inverted = true has
\* the complement of the level the same update makes with inverted = false,
\* clock calls included.
C5_EveryCallComplemented ==
    Returned =>
        \A n \in 1 .. Len(trace) :
            trace[n][2] = ~(CommitSequence(output_state, ~polarity)[n][2])

\* C5 as amended: for a fixed cache state, index and value, the calls made
\* with inverted = true go to the same lines in the same order as with
\* inverted = false; every latch and data call has the complementary level,
\* and every clock call has the same level (high, then low).
C5_LatchAndDataComplemented ==
    Returned =>
        \A n \in 1 .. Len(trace) :
            LET other == CommitSequence(output_state, ~polarity)[n]
            IN /\ other[1] = trace[n][1]
               /\ trace[n][1] \in {"latch", "data"} => trace[n][2] = ~other[2]
               /\ trace[n][1] = "clock" => trace[n][2] = other[2]

\* an inverted update has run to its end over a cache with both values in it
C5_Witness ==
    /\ pc = "idle" /\ result = "Ok" /\ polarity
    /\ \E j, k \in Index : output_state[j] /\ ~output_state[k]

\* C6: when the k-th pin call of an update fails, the update makes no further
\* pin call and returns an error, and the cached bit at the requested index
\* holds the requested value from before the first pin call on.
C6_FailureStopsAndKeepsCache ==
    /\ result = "Err" =>
          /\ pc = "idle"
          /\ pin_result = "Err"
          /\ failed_at \in 1 .. (3 * Width + 2)
          /\ Len(trace) = failed_at
    /\ result \in {"pending", "Ok", "Err"} => output_state[index] = command
    /\ (pc = "latch_open" /\ trace = <<>>) => output_state[index] = command

\* an update that changed a bit failed at a data call in the middle
C6_Witness ==
    /\ result = "Err" /\ pc = "idle"
    /\ failed_at = 5 /\ trace[5][1] = "data"
    /\ pre[index] # command /\ output_state[index] = command

\* C7 as stated: update(i, true) then update(i, false) leaves the cached
\* pattern identical to its state before both calls.
C7_RoundTripRestores ==
    round_trip => output_state = origin

\* C7 as amended: update(i, true) then update(i, false) leaves every position
\* other than i as it was before both calls and position i false; the pattern
\* is identical to its state before both calls when the bit at i was false
\* before them.
C7_RoundTripClearsBit ==
    round_trip =>
        /\ output_state = [origin EXCEPT ![index] = FALSE]
        /\ ~origin[index] => output_state = origin

\* the pair of calls has run on a pattern that held another true bit
C7_Witness ==
    /\ round_trip /\ Returned
    /\ ~origin[index]
    /\ \E j \in Index : j # index /\ origin[j]

\* C8: in every reachable state the output vector equals the cached pattern
\* as it stood at the end of the most recent successful update (the power-on
\* outputs before the first one).
C8_OutputsAreLastCommit ==
    outputs = committed

\* C9: set_high() on the handle with index i is update(i, true) and set_low()
\* is update(i, false): same cache write, same pin calls, same result; every
\* call replays the cache as all earlier calls left it.
C9_PinMethodsAreUpdate ==
    method # "none" =>
        /\ index = handle
        /\ method = "set_high" => command = TRUE
        /\ method = "set_low" => command = FALSE
        /\ output_state = WriteBit(pre, handle, method = "set_high")
        /\ pin_result = result
        /\ Len(trace) <= 3 * Width + 2
        /\ \A n \in 1 .. Len(trace) : trace[n] = Expected(output_state, polarity)[n]

\* set_low() through one handle replayed a bit set through another handle
C9_Witness ==
    /\ method = "set_low" /\ pin_result = "Ok" /\ pc = "idle"
    /\ \E j \in Index : j # handle /\ output_state[j]
    /\ pre[handle]

\* C10: release() makes no pin call and returns the three pins given to
\* new(), in the same order, each at the level the last pin call left it.
C10_ReleaseReturnsPins ==
    [][(phase = "live" /\ phase' = "released") =>
          /\ returned' = Pins
          /\ level' = level
          /\ trace' = trace
          /\ chain' = chain /\ outputs' = outputs]_vars

\* released after decompose() and a failed update that left the clock line high
C10_Witness ==
    /\ phase = "released"
    /\ returned = Pins
    /\ result = "Err"
    /\ level["Pin1"]

\* C11: decompose() returns exactly Width handles, the one at array position
\* k carrying index k, on the one core; it makes no pin call and leaves the
\* cached pattern and the polarity flag as they were, and calling it again
\* gives the same array.
C11_DecomposeGivesOneHandlePerIndex ==
    /\ [](DOMAIN pins # {} =>
            /\ DOMAIN pins = 0 .. (Width - 1)
            /\ Cardinality(DOMAIN pins) = Width
            /\ \A k \in DOMAIN pins : pins[k] = k)
    /\ [][(DOMAIN pins = {} /\ DOMAIN pins' # {}) =>
            /\ output_state' = output_state /\ inverted' = inverted
            /\ trace' = trace /\ level' = level
            /\ chain' = chain /\ outputs' = outputs
            /\ <<clock, latch, data>>' = <<clock, latch, data>>]_vars
    /\ [][(DOMAIN pins # {} /\ DOMAIN pins' # {}) => pins' = pins]_vars

\* handles made again after an update, a drop of the first handles and a
\* change of the polarity flag
C11_Witness ==
    /\ DOMAIN pins = 0 .. (Width - 1)
    /\ result = "Ok" /\ pc = "idle"
    /\ inverted # polarity
    /\ \E j \in Index : output_state[j]

\* C12: new() does not fail, makes no pin call and gives a core whose cached
\* pattern is false at every position and whose polarity flag is false; the
\* first update(i, v) on a fresh core therefore encodes every position other
\* than i as false.
C12_NewGivesAllFalseCore ==
    /\ (/\ phase = "live"
        /\ output_state = AllFalse(Width)
        /\ ~inverted
        /\ trace = <<>>
        /\ <<clock, latch, data>> = Pins)
    /\ [](result = "none" => (output_state = AllFalse(Width) /\ trace = <<>>))
    /\ [][(result = "none" /\ result' = "pending") =>
            output_state' = [j \in Index |-> (j = index' /\ command')]]_vars
    /\ []((pc = "idle" /\ result = "Ok" /\ pre = AllFalse(Width)) =>
            \A k \in 0 .. (Width - 1) :
                (Width - 1 - k # index) =>
                    trace[3 * k + 2] = <<"data", Encodes(FALSE, polarity)>>)

\* an update of position 1 has run to its end, inverted, on an all-false pattern
C12_Witness ==
    /\ pc = "idle" /\ result = "Ok"
    /\ pre = AllFalse(Width)
    /\ index = 1 /\ command /\ polarity
    /\ DataLevels(trace) = [k \in 1 .. Width |-> (Width - k # 1)]

\* C13: inverted(flag) changes the polarity flag only: it makes no pin call
\* and leaves the cached pattern and the three lines as they were; the next
\* update uses the new flag for both latch drives and every data drive.
C13_InvertedChangesOnlyTheFlag ==
    /\ [][inverted' # inverted =>
            /\ output_state' = output_state
            /\ trace' = trace /\ level' = level
            /\ chain' = chain /\ outputs' = outputs
            /\ <<clock, latch, data>>' = <<clock, latch, data>>
            /\ <<phase, pins, pc, result>>' = <<phase, pins, pc, result>>]_vars
    /\ [][pc # "idle" =>
            /\ Len(trace') = Len(trace) + 1
            /\ trace'[Len(trace')] = Expected(output_state, inverted)[Len(trace')]]_vars

\* an update has run to its end under the flag set to true, replaying a bit
\* written by an earlier update
C13_Witness ==
    /\ pc = "idle" /\ result = "Ok"
    /\ inverted /\ polarity
    /\ trace[1] = <<"latch", TRUE>>
    /\ trace[3 * Width + 2] = <<"latch", FALSE>>
    /\ \E j \in Index : output_state[j] /\ j # index

\* C14 as stated: once the first update has run, the polarity flag keeps its
\* value for the rest of the life of the core.
C14_FlagFixedAfterFirstUpdate ==
    [][result # "none" => inverted' = inverted]_vars

\* C14 as amended: the polarity flag changes only by a call of inverted();
\* inverted() takes the core by value, so it can run, also after updates, only
\* while no update is running and no pin handle borrows the core.  The flag
\* therefore keeps its value during each update and for as long as an array of
\* handles is alive, so all updates made through one array of handles use the
\* same polarity.
C14_FlagFixedWhileBorrowed ==
    /\ [][inverted' # inverted =>
            /\ phase = "live" /\ phase' = "live"
            /\ pc = "idle" /\ pc' = "idle"
            /\ DOMAIN pins = {} /\ DOMAIN pins' = {}]_vars
    /\ [](pc # "idle" => inverted = polarity)
    /\ [][(DOMAIN pins # {} /\ DOMAIN pins' # {}) => inverted' = inverted]_vars

\* the flag was changed after an update had run, and handles were made again
C14_Witness ==
    /\ result \in {"Ok", "Err"}
    /\ inverted # polarity
    /\ DOMAIN pins # {}
    /\ phase = "live"

\* C15: update ends after at most 3*Width+2 pin calls; it returns Ok exactly
\* when every one of its 3*Width+2 pin calls succeeded and otherwise the one
\* unit error, whichever line failed; either way the cached bit at the
\* requested index holds the requested value on return.
C15_UpdateCompletesOrFails ==
    /\ [](Len(trace) <= 3 * Width + 2)
    /\ [](pc # "idle" =>
            /\ result = "pending" /\ failed_at = 0
            /\ Len(trace) < 3 * Width + 2
            /\ ENABLED Next)
    /\ [][pc # "idle" => Len(trace') = Len(trace) + 1]_vars
    /\ [](Returned =>
            /\ result = "Ok" <=> (failed_at = 0 /\ Len(trace) = 3 * Width + 2)
            /\ result = "Err" <=> failed_at \in 1 .. (3 * Width + 2)
            /\ result = "Err" => failed_at = Len(trace)
            /\ output_state[index] = command)

\* an update returned the error after only its last call, the latch drive, failed
C15_Witness ==
    /\ pc = "idle" /\ result = "Err"
    /\ failed_at = 3 * Width + 2
    /\ trace[failed_at][1] = "latch"
    /\ output_state[index] = command /\ pre[index] # command

\* C16: every handle carries an index in [0, Width), and every update that
\* runs was called with the index of a handle made by decompose(), so the
\* array access in update is always in range.
C16_IndexInRange ==
    /\ \A k \in DOMAIN pins : pins[k] \in 0 .. (Len0(output_state) - 1)
    /\ DOMAIN output_state = Index
    /\ result # "none" =>
          /\ method \in {"set_high", "set_low"}
          /\ index = handle
          /\ index \in DOMAIN output_state
          /\ index >= 0 /\ index < Width

\* an update through the handle of the last position is running
C16_Witness ==
    /\ pc = "data" /\ i = 1
    /\ index = Width - 1
    /\ handle = Width - 1
    /\ output_state[index] = command

\* C17: update(i, v) changes the cached pattern at position i only and keeps
\* its length; after any sequence of updates, successful or failed, the cached
\* bit at each position is the value of the most recent update addressed to it
\* (false when there was none), and later updates encode those bits again.
C17_OnlyTheIndexedBitChanges ==
    /\ DOMAIN output_state = Index
    /\ Len0(output_state) = Width
    /\ \A j \in Index : output_state[j] = written[j]
    /\ result # "none" =>
          /\ output_state[index] = command
          /\ \A j \in Index : j # index => output_state[j] = pre[j]
    /\ (pc = "idle" /\ result = "Ok") =>
          \A k \in 0 .. (Width - 1) :
              trace[3 * k + 2] =
                  <<"data", Encodes(IF Width - 1 - k = index THEN command
                                    ELSE pre[Width - 1 - k], polarity)>>

\* after a failed update, a later update ran to its end and replayed a bit it
\* did not write
C17_Witness ==
    /\ pc = "idle" /\ result = "Ok"
    /\ faults = 1
    /\ ~command
    /\ \E j \in Index : j # index /\ written[j] /\ output_state[j] /\ pre[j]

\* the cached pattern right after the write of the most recent update
PostWrite == [j \in Index |-> IF j = index THEN command ELSE pre[j]]

\* the place of the data call for a pattern position in the commit sequence
DataCallOf(j) == 3 * (Width - 1 - j) + 2

\* C18: the pin calls of an update that fails at its k-th call are exactly
\* the first k calls of the full sequence computed from the cache after the
\* write and the polarity flag, the data call for the requested index encoding
\* the requested value; nothing is skipped, reordered or repeated, and nothing
\* else (earlier updates, earlier failures) enters the sequence.
C18_FailedUpdateMakesPrefix ==
    /\ Len(trace) <= 3 * Width + 2
    /\ \A n \in 1 .. Len(trace) : trace[n] = Expected(PostWrite, polarity)[n]
    /\ result = "Err" =>
          /\ Len(trace) = failed_at
          /\ failed_at >= DataCallOf(index) =>
                trace[DataCallOf(index)] = <<"data", Encodes(command, polarity)>>
    /\ result = "Ok" => Len(trace) = 3 * Width + 2

\* an update that set bit 1 failed at the clock call right after the data call
\* for that bit
C18_Witness ==
    /\ pc = "idle" /\ result = "Err"
    /\ index = 1 /\ command /\ ~pre[1]
    /\ failed_at = DataCallOf(1) + 1
    /\ trace[failed_at] = <<"clock", TRUE>>
    /\ trace[DataCallOf(1)] = <<"data", Encodes(TRUE, polarity)>>

\* the last level driven on a line by a sequence of pin calls
RECURSIVE LastLevel(_, _, _)
LastLevel(t, field, none) ==
    IF t = <<>> THEN none
    ELSE IF t[Len(t)][1] = field THEN t[Len(t)][2]
    ELSE LastLevel(SubSeq(t, 1, Len(t) - 1), field, none)

\* C19: inside an update every data drive comes after the latch drive to the
\* open level and right before the clock set_high of the same bit; the data
\* line is never driven between a clock set_high and the set_low that follows;
\* no clock drive comes after the latch drive to the commit level; after every
\* successful update the clock line was last driven low and the latch line
\* last driven to the commit level (high when not inverted, low when inverted).
C19_SignalOrdering ==
    /\ \A n \in 1 .. Len(trace) :
          /\ trace[n][1] = "data" =>
                /\ n > 1
                /\ trace[1] = <<"latch", polarity>>
                /\ n < Len(trace) => trace[n + 1] = <<"clock", TRUE>>
          /\ (trace[n] = <<"clock", TRUE>> /\ n < Len(trace)) =>
                trace[n + 1] = <<"clock", FALSE>>
          /\ trace[n] = <<"clock", FALSE>> => (n > 1 /\ trace[n - 1] = <<"clock", TRUE>>)
          /\ (n > 1 /\ trace[n][1] = "latch") =>
                /\ trace[n][2] = ~polarity
                /\ n = Len(trace)
                /\ \A m \in 1 .. Len(trace) : trace[m][1] = "clock" => m < n
    /\ (pc = "idle" /\ result = "Ok") =>
          /\ LastLevel(trace, "clock", TRUE) = FALSE
          /\ LastLevel(trace, "latch", polarity) = ~polarity
          /\ level[clock] = FALSE
          /\ level[latch] = ~polarity

\* an inverted update has run to its end: clock left low, latch left low
C19_Witness ==
    /\ pc = "idle" /\ result = "Ok" /\ polarity
    /\ LastLevel(trace, "clock", TRUE) = FALSE
    /\ LastLevel(trace, "latch", TRUE) = FALSE
    /\ ~level[clock] /\ ~level[latch]

====
